---- MODULE Spec2Model ----
(***************************************************************************)
(* NautiCAI: mission triage (risk classifier, enhancer, WhatsApp dispatch) *)
(* and the detection console's mission session (React state of            *)
(* DetectPage).                                                            *)
(*                                                                         *)
(* The specifications share the variables:                                 *)
(*   SpecClassifier    the risk rules applied to bounded count maps        *)
(*   SpecRecompute     the derived statistics recomputed from a record list*)
(*   SpecHighlights    the highlights picked from an anomaly_log           *)
(*   SpecForgotPassword the forgot-password page                           *)
(*   SpecTriage        a triage request through classify -> enhance ->     *)
(*                     dispatch -> respond, then posted once more          *)
(*   SpecTriageCancel  the same with a caller that may drop the request    *)
(*   SpecTriageFair    the same as SpecTriage with each handler step       *)
(*                     eventually taken                                    *)
(*   Spec              the detect page: runs, merge, remove, reset, triage *)
(*   SpecExactBackend  the detect page when every detection response       *)
(*                     carries the exact aggregates of its anomaly_log     *)
(* A specification leaves the variables of the other parts at their        *)
(* initial values.                                                         *)
(***************************************************************************)
EXTENDS Integers, Sequences, FiniteSets, TLC

\* ------------------------------------------------------------------ bounds
MaxCount == 2       \* largest count of one class in a classifier input map
MaxReqCount == 2    \* largest count of one class in a triage request
MaxTotal == 1       \* largest summary.total of a triage request
MaxRespLen == 1     \* most records in one detection response
MaxFiles == 2       \* most images in one batch run
MaxRuns == 2        \* most detection runs started on the page
MaxLogLen == 3      \* most records of a list given to the recompute harness
MaxHlLen == 5       \* most records of an anomaly_log given to the highlights harness
MaxConf == 2        \* confidences are 1..MaxConf
MaxHighlights == 4  \* highlights picked at most
MaxEmailLen == 5    \* most characters typed into the email field
MaxSubmits == 2     \* most forgotPassword calls made from the page

\* ------------------------------------------------------------ class tables
CriticalClasses == {"corrosion", "damage", "free_span"}
WarningClasses == {"marine_growth", "debris"}
NormalClasses == {"healthy", "anode"}
AllClasses == CriticalClasses \cup WarningClasses \cup NormalClasses

RiskLevels == {"NONE", "LOW", "MEDIUM", "HIGH"}

\* A count map is a function from some class names to counts; a class that is
\* not a key counts 0 (dict.get(c, 0) / obj[c] ?? 0).
Get(m, k) == IF k \in DOMAIN m THEN m[k] ELSE 0

RECURSIVE SumOver(_, _)
SumOver(m, S) ==
  IF S = {} THEN 0
  ELSE LET k == CHOOSE x \in S : TRUE
       IN Get(m, k) + SumOver(m, S \ {k})

\* total = sum of all counts of the map
TotalCount(m) == SumOver(m, DOMAIN m)

RiskClassifierNoWarnEscalation(det_counts) ==
  LET crit_count == SumOver(det_counts, CriticalClasses)
      warn_count == SumOver(det_counts, WarningClasses)
      total == TotalCount(det_counts)
  IN IF crit_count >= 2 THEN "HIGH"
     ELSE IF crit_count = 1 \/ warn_count >= 3 THEN "MEDIUM"
     ELSE IF total > 0 THEN "LOW"
     ELSE "NONE"

RiskClassifier(det_counts) ==
  LET crit_count == SumOver(det_counts, CriticalClasses)
      warn_count == SumOver(det_counts, WarningClasses)
      total == TotalCount(det_counts)
  IN IF crit_count >= 2 \/ (crit_count = 1 /\ warn_count >= 3) THEN "HIGH"
     ELSE IF crit_count = 1 \/ warn_count >= 3 THEN "MEDIUM"
     ELSE IF total > 0 THEN "LOW"
     ELSE "NONE"

VARIABLES
  \* classifier harness
  cIn, cOut,
  \* forgot-password page: React state of ForgotPasswordPage (email,
  \* submitting, error, success), forgotPassword calls made so far, how the
  \* last one ended
  fpEmail, fpSubmitting, fpError, fpSuccess, fpRequests, fpOutcome,
  \* highlights harness: the confidences of an anomaly_log in list order, the
  \* positions picked as highlights, whether they have been picked
  hLog, hOut, hDone,
  \* recompute harness: a record list, the stored counts and summary, what was
  \* stored at first, the result of the first recompute, recomputes so far
  kLog, kDetCounts, kSummary, kBefore, kOnce, kApplied,
  \* triage engine (one request at a time)
  tpc, req, risk_level, baseline, text, llm_used, whatsapp_result,
  enhOutcome, msgOutcome, llmCalls, msgCalls, prevObs,
  \* triage engine: whether the Twilio credentials are in the environment,
  \* the body handed to the messaging provider, whether the caller has
  \* dropped the request
  twilioConfigured, sentBody, cancelled,
  \* detect page: React state of DetectPage
  tab, anomalyLog, detCounts, summary, annotatedImages, agentResult, error,
  loading,
  \* detect page: the run in flight (locals and closure of the async handler)
  runKind, filesLeft, accumulatedLog, accumulatedCounts, accumulatedSummary,
  closureLog, closureCounts, closureSummary,
  \* detect page: triage requests in flight
  triageInFlight,
  \* detect page: history of the current run (runs started so far, image
  \* files of the run, records its responses returned, how it ended, whether
  \* the operator removed a record or reset since it started)
  runsStarted, runFiles, runLog, runOutcome, edited,
  \* detect page: history: the operator has reset the session and has not
  \* started a run since
  resetDone

kvars == <<kLog, kDetCounts, kSummary, kBefore, kOnce, kApplied>>
hlvars == <<hLog, hOut, hDone>>
avars == <<fpEmail, fpSubmitting, fpError, fpSuccess, fpRequests, fpOutcome>>
cvars == <<cIn, cOut, kvars, hlvars, avars>>
tvars == <<tpc, req, risk_level, baseline, text, llm_used, whatsapp_result,
           enhOutcome, msgOutcome, llmCalls, msgCalls, prevObs,
           twilioConfigured, sentBody, cancelled>>
pvars == <<tab, anomalyLog, detCounts, summary, annotatedImages, agentResult,
           error, loading>>
rvars == <<runKind, filesLeft, accumulatedLog, accumulatedCounts,
           accumulatedSummary, closureLog, closureCounts, closureSummary>>
hvars == <<runsStarted, runFiles, runLog, runOutcome, edited, resetDone>>
fvars == <<pvars, rvars, triageInFlight, hvars>>
\* what of the triage engine most steps leave alone
xvars == <<twilioConfigured, sentBody, cancelled>>
vars == <<cvars, tvars, fvars>>

None == "none"

\* ------------------------------------------------------ classifier harness
CountMaps == [AllClasses -> 0..MaxCount]

Classify ==
  /\ cOut = None
  /\ cOut' = RiskClassifier(cIn)
  /\ UNCHANGED <<cIn, kvars, hlvars, avars, tvars, fvars>>

\* ------------------------------------------------------------ triage engine
TriageClasses == {"damage", "marine_growth", "debris", "healthy"}
NoPhone == "null"
Phones == {NoPhone, "", "+15550100"}
\* Request bodies: det_counts, summary.total, the length of anomaly_log,
\* phone and send_whatsapp; a count may be negative and the total may differ
\* from the length of the log.
Requests ==
  [det_counts : [TriageClasses -> -1..MaxReqCount],
   total : -1..MaxTotal,
   log_len : 0..MaxTotal,
   phone : Phones,
   send_whatsapp : BOOLEAN]

\* what the generative-text provider call can end in
EnhancerFailures ==
  {"network_error", "non_2xx", "timeout", "unparsable_json", "schema_invalid"}
EnhancerOutcomes == {"disabled", "valid"} \cup EnhancerFailures
\* what the messaging provider call can end in
MsgFailures ==
  {"auth_error", "invalid_destination", "rate_limit", "network_failure",
   "timeout"}
MsgOutcomes == {"ok"} \cup MsgFailures

NoText == [headline |-> <<>>, bullets |-> <<>>, recommendations |-> <<>>,
           whatsapp_message |-> <<>>]
NoDispatch == [attempted |-> FALSE, sent |-> FALSE, info |-> None]

\* The fixed templates, keyed by the risk level.
ComposeBaseline(risk) ==
  [headline |-> <<"headline", risk>>,
   bullets |-> <<"bullets", risk>>,
   recommendations |-> <<"recommendation", risk>>,
   whatsapp_message |-> <<"message", risk>>]

\* The four keys as rewritten by the language model.
LlmText ==
  [headline |-> <<"llm_headline">>,
   bullets |-> <<"llm_bullets">>,
   recommendations |-> <<"llm_recommendation">>,
   whatsapp_message |-> <<"llm_message">>]

\* Python truthiness of body.phone: None and "" are falsy.
Truthy(phone) == phone /= NoPhone /\ phone /= ""

DispatchDecisionIgnoresRisk(send_whatsapp, phone, risk) ==
  send_whatsapp /\ Truthy(phone)

DispatchDecisionPhoneNotNone(send_whatsapp, phone, risk) ==
  send_whatsapp /\ phone /= NoPhone /\ risk \in {"MEDIUM", "HIGH"}

\* if body.send_whatsapp and body.phone and risk_level in {"MEDIUM", "HIGH"}
DispatchDecision(send_whatsapp, phone, risk) ==
  send_whatsapp /\ Truthy(phone) /\ risk \in {"MEDIUM", "HIGH"}

\* info of a negative decision
NegativeInfo(send_whatsapp, phone, risk) ==
  IF ~send_whatsapp THEN "not requested"
  ELSE IF risk \notin {"MEDIUM", "HIGH"} THEN "risk below threshold"
  ELSE "no phone"

EnhancerAcceptsAnyParsed(outcome) == outcome \in {"valid", "schema_invalid"}

\* The enhancer result is trusted only when the call succeeded, the body
\* parsed and the four keys validated.
EnhancerAccepts(outcome) == outcome = "valid"

ValidRequestIgnoresLogLength(r) ==
  /\ \A c \in DOMAIN r.det_counts : r.det_counts[c] >= 0
  /\ r.total >= 0

\* The request shape that is let through: no negative count and a total
\* that is the length of the log.
ValidRequest(r) ==
  /\ \A c \in DOMAIN r.det_counts : r.det_counts[c] >= 0
  /\ r.total >= 0
  /\ r.total = r.log_len

\* POST /api/agent/mission-summary arrives; a malformed body is answered with
\* an error before anything is computed.
Receive ==
  /\ tpc = "idle"
  /\ tpc' = IF ValidRequest(req) THEN "classify" ELSE "rejected"
  /\ UNCHANGED <<req, risk_level, baseline, text, llm_used, whatsapp_result,
                 enhOutcome, msgOutcome, llmCalls, msgCalls, prevObs, xvars,
                 cvars, fvars>>

\* Steps 1-5 of agent_mission_summary: risk, bullets, highlights,
\* recommendation, base headline and message.
ClassifyStep ==
  /\ tpc = "classify"
  /\ risk_level' = RiskClassifier(req.det_counts)
  /\ baseline' = ComposeBaseline(risk_level')
  /\ text' = baseline'
  /\ tpc' = "enhance"
  /\ UNCHANGED <<req, llm_used, whatsapp_result, enhOutcome, msgOutcome,
                 llmCalls, msgCalls, prevObs, xvars, cvars, fvars>>

EnhanceStepOverridesRisk ==
  /\ tpc = "enhance"
  /\ \E o \in EnhancerOutcomes :
       /\ enhOutcome' = o
       /\ llmCalls' = IF o = "disabled" THEN llmCalls ELSE llmCalls + 1
       /\ IF EnhancerAccepts(o)
            THEN text' = LlmText /\ llm_used' = TRUE /\ risk_level' = "LOW"
            ELSE text' = baseline /\ llm_used' = FALSE /\ UNCHANGED risk_level
  /\ tpc' = "dispatch"
  /\ UNCHANGED <<req, baseline, whatsapp_result, msgOutcome,
                 msgCalls, prevObs, xvars, cvars, fvars>>

EnhanceStepWaitsForAnswer ==
  /\ tpc = "enhance"
  /\ \E o \in EnhancerOutcomes :
       /\ enhOutcome' = o
       /\ llmCalls' = IF o = "disabled" THEN llmCalls ELSE llmCalls + 1
       /\ IF EnhancerAccepts(o)
            THEN text' = LlmText /\ llm_used' = TRUE
            ELSE text' = baseline /\ llm_used' = FALSE
  /\ tpc' = IF enhOutcome' = "timeout" THEN "waiting" ELSE "dispatch"
  /\ UNCHANGED <<req, risk_level, baseline, whatsapp_result, msgOutcome,
                 msgCalls, prevObs, xvars, cvars, fvars>>

\* call_gemini_mission_agent: without GEMINI_API_KEY no call is made; a call
\* that fails or whose body does not parse leaves the heuristic text; a
\* parsed answer overwrites headline, bullets, recommendations and
\* whatsapp_message and sets llm_used.
EnhanceStep ==
  /\ tpc = "enhance"
  /\ \E o \in EnhancerOutcomes :
       /\ enhOutcome' = o
       /\ llmCalls' = IF o = "disabled" THEN llmCalls ELSE llmCalls + 1
       /\ IF EnhancerAccepts(o)
            THEN text' = LlmText /\ llm_used' = TRUE
            ELSE text' = baseline /\ llm_used' = FALSE
  /\ tpc' = "dispatch"
  /\ UNCHANGED <<req, risk_level, baseline, whatsapp_result, msgOutcome,
                 msgCalls, prevObs, xvars, cvars, fvars>>

DispatchStepRaisesOnFailure ==
  /\ tpc = "dispatch"
  /\ IF DispatchDecision(req.send_whatsapp, req.phone, risk_level)
       THEN IF twilioConfigured
              THEN \E m \in MsgOutcomes :
                     /\ msgOutcome' = m
                     /\ msgCalls' = msgCalls + 1
                     /\ sentBody' = text.whatsapp_message
                     /\ whatsapp_result' =
                          [attempted |-> TRUE, sent |-> (m = "ok"),
                           info |-> IF m = "ok" THEN "sid" ELSE m]
                     /\ tpc' = IF m = "ok" THEN "done" ELSE "error"
              ELSE /\ whatsapp_result' =
                        [attempted |-> TRUE, sent |-> FALSE,
                         info |-> "not_configured"]
                   /\ tpc' = "done"
                   /\ UNCHANGED <<msgOutcome, msgCalls, sentBody>>
       ELSE /\ whatsapp_result' =
                 [attempted |-> FALSE, sent |-> FALSE,
                  info |-> NegativeInfo(req.send_whatsapp, req.phone, risk_level)]
            /\ tpc' = "done"
            /\ UNCHANGED <<msgOutcome, msgCalls, sentBody>>
  /\ UNCHANGED <<req, risk_level, baseline, text, llm_used, enhOutcome,
                 llmCalls, prevObs, twilioConfigured, cancelled, cvars, fvars>>

DispatchStepSendsBaseline ==
  /\ tpc = "dispatch"
  /\ IF DispatchDecision(req.send_whatsapp, req.phone, risk_level)
       THEN IF twilioConfigured
              THEN \E m \in MsgOutcomes :
                     /\ msgOutcome' = m
                     /\ msgCalls' = msgCalls + 1
                     /\ sentBody' = baseline.whatsapp_message
                     /\ whatsapp_result' =
                          [attempted |-> TRUE, sent |-> (m = "ok"),
                           info |-> IF m = "ok" THEN "sid" ELSE m]
              ELSE /\ whatsapp_result' =
                        [attempted |-> TRUE, sent |-> FALSE,
                         info |-> "not_configured"]
                   /\ UNCHANGED <<msgOutcome, msgCalls, sentBody>>
       ELSE /\ whatsapp_result' =
                 [attempted |-> FALSE, sent |-> FALSE,
                  info |-> NegativeInfo(req.send_whatsapp, req.phone, risk_level)]
            /\ UNCHANGED <<msgOutcome, msgCalls, sentBody>>
  /\ tpc' = "done"
  /\ UNCHANGED <<req, risk_level, baseline, text, llm_used, enhOutcome,
                 llmCalls, prevObs, twilioConfigured, cancelled, cvars, fvars>>

DispatchStepRetries ==
  /\ tpc = "dispatch"
  /\ IF DispatchDecision(req.send_whatsapp, req.phone, risk_level)
       THEN IF twilioConfigured
              THEN \E m \in MsgOutcomes :
                     /\ msgOutcome' = m
                     /\ msgCalls' = msgCalls + 1
                     /\ sentBody' = text.whatsapp_message
                     /\ whatsapp_result' =
                          [attempted |-> TRUE, sent |-> (m = "ok"),
                           info |-> IF m = "ok" THEN "sid" ELSE m]
                     /\ tpc' = IF m = "ok" \/ msgCalls >= 2 THEN "done"
                               ELSE "dispatch"
              ELSE /\ whatsapp_result' =
                        [attempted |-> TRUE, sent |-> FALSE,
                         info |-> "not_configured"]
                   /\ tpc' = "done"
                   /\ UNCHANGED <<msgOutcome, msgCalls, sentBody>>
       ELSE /\ whatsapp_result' =
                 [attempted |-> FALSE, sent |-> FALSE,
                  info |-> NegativeInfo(req.send_whatsapp, req.phone, risk_level)]
            /\ tpc' = "done"
            /\ UNCHANGED <<msgOutcome, msgCalls, sentBody>>
  /\ UNCHANGED <<req, risk_level, baseline, text, llm_used, enhOutcome,
                 llmCalls, prevObs, twilioConfigured, cancelled, cvars, fvars>>

\* The WhatsApp branch of agent_mission_summary with send_whatsapp_alert:
\* whatsapp_message is handed over as it stands after the enhancer;
\* client.messages.create is called once; (True, sid) or (False, error) comes
\* back and is reported, never raised. attempted is True whenever the branch
\* is taken, also when get_twilio_client has no credentials to build a client
\* from. The caller having gone away is not looked at anywhere.
DispatchStep ==
  /\ tpc = "dispatch"
  /\ IF DispatchDecision(req.send_whatsapp, req.phone, risk_level)
       THEN IF twilioConfigured
              THEN \E m \in MsgOutcomes :
                     /\ msgOutcome' = m
                     /\ msgCalls' = msgCalls + 1
                     /\ sentBody' = text.whatsapp_message
                     /\ whatsapp_result' =
                          [attempted |-> TRUE, sent |-> (m = "ok"),
                           info |-> IF m = "ok" THEN "sid" ELSE m]
              ELSE /\ whatsapp_result' =
                        [attempted |-> TRUE, sent |-> FALSE,
                         info |-> "not_configured"]
                   /\ UNCHANGED <<msgOutcome, msgCalls, sentBody>>
       ELSE /\ whatsapp_result' =
                 [attempted |-> FALSE, sent |-> FALSE,
                  info |-> NegativeInfo(req.send_whatsapp, req.phone, risk_level)]
            /\ UNCHANGED <<msgOutcome, msgCalls, sentBody>>
  /\ tpc' = "done"
  /\ UNCHANGED <<req, risk_level, baseline, text, llm_used, enhOutcome,
                 llmCalls, prevObs, twilioConfigured, cancelled, cvars, fvars>>

\* The observation a finished request leaves for the comparison with a second
\* request of identical inputs.
Observation ==
  [risk_level |-> risk_level, attempted |-> whatsapp_result.attempted,
   enhOutcome |-> enhOutcome]

\* The caller, having got its answer, posts the same request body once
\* more; nothing of the first invocation is kept by the engine.
Resubmit ==
  /\ tpc = "done"
  /\ ~cancelled
  /\ prevObs = {}
  /\ prevObs' = {Observation}
  /\ tpc' = "classify"
  /\ risk_level' = None
  /\ baseline' = NoText
  /\ text' = NoText
  /\ llm_used' = FALSE
  /\ whatsapp_result' = NoDispatch
  /\ enhOutcome' = None
  /\ msgOutcome' = None
  /\ llmCalls' = 0
  /\ msgCalls' = 0
  /\ sentBody' = <<>>
  /\ UNCHANGED <<req, twilioConfigured, cancelled, cvars, fvars>>

\* The client drops the connection while the request is being handled.
Cancel ==
  /\ tpc \in {"classify", "enhance", "dispatch"}
  /\ ~cancelled
  /\ cancelled' = TRUE
  /\ UNCHANGED <<tpc, req, risk_level, baseline, text, llm_used,
                 whatsapp_result, enhOutcome, msgOutcome, llmCalls, msgCalls,
                 prevObs, twilioConfigured, sentBody, cvars, fvars>>

\* ---------------------------------------------------------------- detect page
\* One class of each severity of the SEVERITY table.
FrontClasses == {"damage", "debris", "healthy"}
Tabs == {"image", "video", "report"}

\* SEVERITY[cls] ?? defaultSeverity
getSeverity(cls) ==
  IF cls \in CriticalClasses THEN "CRITICAL"
  ELSE IF cls \in WarningClasses THEN "WARNING"
  ELSE IF cls \in NormalClasses THEN "NORMAL"
  ELSE "WARNING"

ClassesIn(log) == {log[i] : i \in 1..Len(log)}
CountClass(log, c) == Cardinality({i \in 1..Len(log) : log[i] = c})
CountLabels(log, labels) ==
  Cardinality({i \in 1..Len(log) : getSeverity(log[i]) \in labels})

EmptySummary == [total |-> 0, critical |-> 0, warnings |-> 0, normal |-> 0]

\* One pass for the counts per class, one for the severities (an item that is
\* neither CRITICAL nor WARNING counts as normal).
computeStatsFromLog(log) ==
  [detCounts |-> [c \in ClassesIn(log) |-> CountClass(log, c)],
   summary |-> [total |-> Len(log),
                critical |-> CountLabels(log, {"CRITICAL"}),
                warnings |-> CountLabels(log, {"WARNING"}),
                normal |-> CountLabels(log, {"NORMAL"})]]

\* next[k] = (next[k] ?? 0) + v for every entry of newCounts
AddCounts(prev, newCounts) ==
  [k \in DOMAIN prev \cup DOMAIN newCounts |->
     IF k \in DOMAIN newCounts THEN Get(prev, k) + newCounts[k] ELSE prev[k]]

AddSummary(prev, newSummary) ==
  [total |-> prev.total + newSummary.total,
   critical |-> prev.critical + newSummary.critical,
   warnings |-> prev.warnings + newSummary.warnings,
   normal |-> prev.normal + newSummary.normal]

\* A detection response (DetectImageResponse / DetectVideoResponse).  Its
\* anomaly_log, det_counts and summary are separate fields of the JSON body
\* and the page takes each as sent.  The backend derives the aggregates from
\* its list of detections (`counted`) and the log from the detections it
\* records: the log is `counted` itself or `counted` without one detection.
RECURSIVE SeqsUpTo(_, _)
SeqsUpTo(S, n) ==
  IF n = 0 THEN {<<>>}
  ELSE LET shorter == SeqsUpTo(S, n - 1)
       IN shorter \cup {Append(q, c) : q \in shorter, c \in S}

ResponseLogs == SeqsUpTo(FrontClasses, MaxRespLen)

RemoveAt(log, index) ==
  [i \in 1..(Len(log) - 1) |-> IF i < index THEN log[i] ELSE log[i + 1]]

DetectionResponse(log, counted) ==
  [anomaly_log |-> log,
   det_counts |-> computeStatsFromLog(counted).detCounts,
   summary |-> computeStatsFromLog(counted).summary]

\* responses whose aggregates are those of the log they carry
ExactResponses == {DetectionResponse(k, k) : k \in ResponseLogs}

Responses ==
  ExactResponses
    \cup {DetectionResponse(RemoveAt(k, i), k) :
            k \in ResponseLogs \ {<<>>}, i \in 1..MaxRespLen}

NoRun == "none"

\* The request runAgentMission posts for a run, with the data the run's
\* detection responses returned.
TriageRequest(kind, payload, returned) ==
  [run |-> runsStarted, kind |-> kind,
   anomaly_log |-> payload.anomaly_log,
   det_counts |-> payload.det_counts,
   summary |-> payload.summary,
   returned |-> returned]

\* if (payload.anomaly_log.length === 0) return; runAgentMission({...})
triggerAgentAlert(kind, payload, returned) ==
  IF Len(payload.anomaly_log) = 0
    THEN triageInFlight
    ELSE triageInFlight \cup {TriageRequest(kind, payload, returned)}

\* The tab buttons.
SetTab(t) ==
  /\ tab /= t
  /\ tab' = t
  /\ UNCHANGED <<anomalyLog, detCounts, summary, annotatedImages, agentResult,
                 error, loading, rvars, triageInFlight, hvars, cvars, tvars>>

runImageDetectionBatchKeepsSession(n) ==
  /\ tab = "image"
  /\ ~loading
  /\ n > 0
  /\ runsStarted < MaxRuns
  /\ agentResult' = <<>>
  /\ error' = None
  /\ loading' = TRUE
  /\ runKind' = "batch"
  /\ filesLeft' = n
  /\ accumulatedLog' = <<>>
  /\ accumulatedCounts' = <<>>
  /\ accumulatedSummary' = EmptySummary
  /\ runsStarted' = runsStarted + 1
  /\ runFiles' = n
  /\ runLog' = <<>>
  /\ runOutcome' = "running"
  /\ edited' = FALSE
  /\ resetDone' = FALSE
  /\ UNCHANGED <<tab, anomalyLog, detCounts, summary, annotatedImages,
                 closureLog, closureCounts, closureSummary, triageInFlight,
                 cvars, tvars>>

\* runImageDetectionBatch up to its first await ("Run detection" is disabled
\* while loading or without files).
runImageDetectionBatch(n) ==
  /\ tab = "image"
  /\ ~loading
  /\ n > 0
  /\ runsStarted < MaxRuns
  /\ anomalyLog' = <<>>
  /\ detCounts' = <<>>
  /\ summary' = EmptySummary
  /\ annotatedImages' = <<>>
  /\ agentResult' = <<>>
  /\ error' = None
  /\ loading' = TRUE
  /\ runKind' = "batch"
  /\ filesLeft' = n
  /\ accumulatedLog' = <<>>
  /\ accumulatedCounts' = <<>>
  /\ accumulatedSummary' = EmptySummary
  /\ runsStarted' = runsStarted + 1
  /\ runFiles' = n
  /\ runLog' = <<>>
  /\ runOutcome' = "running"
  /\ edited' = FALSE
  /\ resetDone' = FALSE
  /\ UNCHANGED <<tab, closureLog, closureCounts, closureSummary,
                 triageInFlight, cvars, tvars>>

\* One detectImage call of the batch resolves: runSingleImageDetection
\* (annotated image, mergeResults), the accumulation of the loop body and,
\* after the last file, setTab, triggerAgentAlert and the finally block.
BatchImageDetected(data) ==
  /\ runKind = "batch"
  /\ filesLeft > 0
  /\ annotatedImages' = Append(annotatedImages, "img")
  /\ anomalyLog' = anomalyLog \o data.anomaly_log
  /\ detCounts' = AddCounts(detCounts, data.det_counts)
  /\ summary' = AddSummary(summary, data.summary)
  /\ accumulatedLog' = accumulatedLog \o data.anomaly_log
  /\ accumulatedCounts' = AddCounts(accumulatedCounts, data.det_counts)
  /\ accumulatedSummary' = AddSummary(accumulatedSummary, data.summary)
  /\ runLog' = runLog \o data.anomaly_log
  /\ filesLeft' = filesLeft - 1
  /\ IF filesLeft' = 0
       THEN /\ tab' = "image"
            /\ triageInFlight' =
                 triggerAgentAlert("batch",
                   [anomaly_log |-> accumulatedLog',
                    det_counts |-> accumulatedCounts',
                    summary |-> accumulatedSummary'],
                   [anomaly_log |-> accumulatedLog',
                    det_counts |-> accumulatedCounts',
                    summary |-> accumulatedSummary'])
            /\ loading' = FALSE
            /\ runKind' = NoRun
            /\ runOutcome' = "ok"
       ELSE UNCHANGED <<tab, triageInFlight, loading, runKind, runOutcome>>
  /\ UNCHANGED <<agentResult, error, closureLog, closureCounts, closureSummary,
                 runsStarted, runFiles, edited, resetDone, cvars, tvars>>

BatchImageFailedThenAlerts ==
  /\ runKind = "batch"
  /\ filesLeft > 0
  /\ error' = "Detection failed"
  /\ loading' = FALSE
  /\ runKind' = NoRun
  /\ filesLeft' = 0
  /\ runOutcome' = "failed"
  /\ triageInFlight' =
       triggerAgentAlert("batch",
         [anomaly_log |-> accumulatedLog, det_counts |-> accumulatedCounts,
          summary |-> accumulatedSummary],
         [anomaly_log |-> accumulatedLog, det_counts |-> accumulatedCounts,
          summary |-> accumulatedSummary])
  /\ UNCHANGED <<tab, anomalyLog, detCounts, summary, annotatedImages,
                 agentResult, accumulatedLog, accumulatedCounts,
                 accumulatedSummary, closureLog, closureCounts, closureSummary,
                 runsStarted, runFiles, runLog, edited, resetDone,
                 cvars, tvars>>

\* A detectImage call of the batch throws: catch and finally.
BatchImageFailed ==
  /\ runKind = "batch"
  /\ filesLeft > 0
  /\ error' = "Detection failed"
  /\ loading' = FALSE
  /\ runKind' = NoRun
  /\ filesLeft' = 0
  /\ runOutcome' = "failed"
  /\ UNCHANGED <<tab, anomalyLog, detCounts, summary, annotatedImages,
                 agentResult, accumulatedLog, accumulatedCounts,
                 accumulatedSummary, closureLog, closureCounts, closureSummary,
                 triageInFlight, runsStarted, runFiles, runLog, edited, resetDone,
                 cvars, tvars>>

runVideoAnalysisWhileLoading ==
  /\ tab = "video"
  /\ runsStarted < MaxRuns
  /\ closureLog' = anomalyLog
  /\ closureCounts' = detCounts
  /\ closureSummary' = summary
  /\ anomalyLog' = <<>>
  /\ detCounts' = <<>>
  /\ summary' = EmptySummary
  /\ annotatedImages' = <<>>
  /\ agentResult' = <<>>
  /\ error' = None
  /\ loading' = TRUE
  /\ runKind' = "video"
  /\ runsStarted' = runsStarted + 1
  /\ runFiles' = 0
  /\ runLog' = <<>>
  /\ runOutcome' = "running"
  /\ edited' = FALSE
  /\ resetDone' = FALSE
  /\ UNCHANGED <<tab, filesLeft, accumulatedLog, accumulatedCounts,
                 accumulatedSummary, triageInFlight, cvars, tvars>>

\* runVideoAnalysis up to its await.  The handler keeps the anomalyLog,
\* detCounts and summary of the render it was created in.
runVideoAnalysis ==
  /\ tab = "video"
  /\ ~loading
  /\ runsStarted < MaxRuns
  /\ closureLog' = anomalyLog
  /\ closureCounts' = detCounts
  /\ closureSummary' = summary
  /\ anomalyLog' = <<>>
  /\ detCounts' = <<>>
  /\ summary' = EmptySummary
  /\ annotatedImages' = <<>>
  /\ agentResult' = <<>>
  /\ error' = None
  /\ loading' = TRUE
  /\ runKind' = "video"
  /\ runsStarted' = runsStarted + 1
  /\ runFiles' = 0
  /\ runLog' = <<>>
  /\ runOutcome' = "running"
  /\ edited' = FALSE
  /\ resetDone' = FALSE
  /\ UNCHANGED <<tab, filesLeft, accumulatedLog, accumulatedCounts,
                 accumulatedSummary, triageInFlight, cvars, tvars>>

\* detectVideo resolves: mergeResults, setTab("report"), the merged payload
\* built from the handler's own anomalyLog, detCounts and summary,
\* triggerAgentAlert and the finally block.
VideoAnalysed(data) ==
  /\ runKind = "video"
  /\ annotatedImages' = <<>>
  /\ anomalyLog' = anomalyLog \o data.anomaly_log
  /\ detCounts' = AddCounts(detCounts, data.det_counts)
  /\ summary' = AddSummary(summary, data.summary)
  /\ tab' = "report"
  /\ triageInFlight' =
       triggerAgentAlert("video",
         [anomaly_log |-> closureLog \o data.anomaly_log,
          det_counts |-> AddCounts(closureCounts, data.det_counts),
          summary |-> AddSummary(closureSummary, data.summary)],
         data)
  /\ loading' = FALSE
  /\ runKind' = NoRun
  /\ runLog' = runLog \o data.anomaly_log
  /\ runOutcome' = "ok"
  /\ closureLog' = <<>>
  /\ closureCounts' = <<>>
  /\ closureSummary' = EmptySummary
  /\ UNCHANGED <<agentResult, error, filesLeft, accumulatedLog,
                 accumulatedCounts, accumulatedSummary, runsStarted, runFiles,
                 edited, resetDone, cvars, tvars>>

\* detectVideo throws: catch and finally.
VideoFailed ==
  /\ runKind = "video"
  /\ error' = "Video analysis failed"
  /\ loading' = FALSE
  /\ runKind' = NoRun
  /\ runOutcome' = "failed"
  /\ closureLog' = <<>>
  /\ closureCounts' = <<>>
  /\ closureSummary' = EmptySummary
  /\ UNCHANGED <<tab, anomalyLog, detCounts, summary, annotatedImages,
                 agentResult, filesLeft, accumulatedLog, accumulatedCounts,
                 accumulatedSummary, triageInFlight, runsStarted, runFiles,
                 runLog, edited, resetDone, cvars, tvars>>

\* runAgentMission resolves: .then of triggerAgentAlert.
AgentResolved(t) ==
  /\ t \in triageInFlight
  /\ triageInFlight' = triageInFlight \ {t}
  /\ agentResult' = <<[run |-> t.run]>>
  /\ tab' = "report"
  /\ UNCHANGED <<anomalyLog, detCounts, summary, annotatedImages, error,
                 loading, rvars, hvars, cvars, tvars>>

\* runAgentMission rejects: .catch(() => {}).
AgentRejected(t) ==
  /\ t \in triageInFlight
  /\ triageInFlight' = triageInFlight \ {t}
  /\ UNCHANGED <<pvars, rvars, hvars, cvars, tvars>>

removeAnomalyAtIndexStaleSummary(index) ==
  /\ tab = "report"
  /\ index \in 1..Len(anomalyLog)
  /\ LET next == RemoveAt(anomalyLog, index)
     IN /\ anomalyLog' = next
        /\ detCounts' = computeStatsFromLog(next).detCounts
  /\ edited' = TRUE
  /\ UNCHANGED <<resetDone, tab, summary, annotatedImages, agentResult, error, loading,
                 rvars, triageInFlight, runsStarted, runFiles, runLog,
                 runOutcome, cvars, tvars>>

removeAnomalyAtIndexClearsAgentResult(index) ==
  /\ tab = "report"
  /\ index \in 1..Len(anomalyLog)
  /\ LET next == RemoveAt(anomalyLog, index)
     IN /\ anomalyLog' = next
        /\ detCounts' = computeStatsFromLog(next).detCounts
        /\ summary' = computeStatsFromLog(next).summary
  /\ edited' = TRUE
  /\ agentResult' = <<>>
  /\ UNCHANGED <<resetDone, tab, annotatedImages, error, loading, rvars,
                 triageInFlight, runsStarted, runFiles, runLog, runOutcome,
                 cvars, tvars>>

\* The "x" of a timeline row or snapshot (Mission Report tab, one per record).
removeAnomalyAtIndex(index) ==
  /\ tab = "report"
  /\ index \in 1..Len(anomalyLog)
  /\ LET next == RemoveAt(anomalyLog, index)
     IN /\ anomalyLog' = next
        /\ detCounts' = computeStatsFromLog(next).detCounts
        /\ summary' = computeStatsFromLog(next).summary
  /\ edited' = TRUE
  /\ UNCHANGED <<resetDone, tab, annotatedImages, agentResult, error, loading, rvars,
                 triageInFlight, runsStarted, runFiles, runLog, runOutcome,
                 cvars, tvars>>

resetSessionKeepsAgentResult ==
  /\ tab = "report"
  /\ Len(anomalyLog) > 0
  /\ anomalyLog' = <<>>
  /\ detCounts' = <<>>
  /\ summary' = EmptySummary
  /\ annotatedImages' = <<>>
  /\ error' = None
  /\ edited' = TRUE
  /\ resetDone' = TRUE
  /\ UNCHANGED <<tab, agentResult, loading, rvars, triageInFlight, runsStarted,
                 runFiles, runLog, runOutcome, cvars, tvars>>

\* "Reset session" (Mission Report tab, shown while the log is not empty).
resetSession ==
  /\ tab = "report"
  /\ Len(anomalyLog) > 0
  /\ anomalyLog' = <<>>
  /\ detCounts' = <<>>
  /\ summary' = EmptySummary
  /\ annotatedImages' = <<>>
  /\ agentResult' = <<>>
  /\ error' = None
  /\ edited' = TRUE
  /\ resetDone' = TRUE
  /\ UNCHANGED <<tab, loading, rvars, triageInFlight, runsStarted, runFiles,
                 runLog, runOutcome, cvars, tvars>>

PageNext(backend) ==
  \/ \E t \in Tabs : SetTab(t)
  \/ \E n \in 1..MaxFiles : runImageDetectionBatch(n)
  \/ \E data \in backend : BatchImageDetected(data)
  \/ BatchImageFailed
  \/ runVideoAnalysis
  \/ \E data \in backend : VideoAnalysed(data)
  \/ VideoFailed
  \/ \E t \in triageInFlight : AgentResolved(t)
  \/ \E t \in triageInFlight : AgentRejected(t)
  \/ \E i \in 1..Len(anomalyLog) : removeAnomalyAtIndex(i)
  \/ resetSession

NextPage == PageNext(Responses)
NextPageExact == PageNext(ExactResponses)

\* ------------------------------------------------------- recompute harness
\* The recompute of removeAnomalyAtIndex on its own: computeStatsFromLog of
\* the list, stored with setDetCounts and setSummary.
RecomputeAddsToStored ==
  /\ kApplied < 2
  /\ kDetCounts' = AddCounts(kDetCounts, computeStatsFromLog(kLog).detCounts)
  /\ kSummary' = AddSummary(kSummary, computeStatsFromLog(kLog).summary)
  /\ kApplied' = kApplied + 1
  /\ kOnce' = IF kApplied = 0
               THEN <<[detCounts |-> kDetCounts', summary |-> kSummary']>>
               ELSE kOnce
  /\ UNCHANGED <<kLog, kBefore, cIn, cOut, hlvars, avars,
                 tvars, fvars>>

Recompute ==
  /\ kApplied < 2
  /\ kDetCounts' = computeStatsFromLog(kLog).detCounts
  /\ kSummary' = computeStatsFromLog(kLog).summary
  /\ kApplied' = kApplied + 1
  /\ kOnce' = IF kApplied = 0
               THEN <<[detCounts |-> kDetCounts', summary |-> kSummary']>>
               ELSE kOnce
  /\ UNCHANGED <<kLog, kBefore, cIn, cOut, hlvars, avars,
                 tvars, fvars>>

\* ------------------------------------------------------ highlights harness
RECURSIVE InsertByConfidence(_, _, _)
\* position i put into a list of positions ordered by falling confidence,
\* behind every position whose confidence is not lower
InsertByConfidence(sorted, i, log) ==
  IF sorted = <<>> THEN <<i>>
  ELSE IF log[Head(sorted)] >= log[i]
         THEN <<Head(sorted)>> \o InsertByConfidence(Tail(sorted), i, log)
         ELSE <<i>> \o sorted

RECURSIVE SortByConfidence(_, _)
\* the first n positions of the log in falling confidence, equal confidences
\* in list order
SortByConfidence(log, n) ==
  IF n = 0 THEN <<>>
  ELSE InsertByConfidence(SortByConfidence(log, n - 1), n, log)

HighlightsFirstFour(log) ==
  [k \in 1..(IF Len(log) < MaxHighlights THEN Len(log) ELSE MaxHighlights) |-> k]

\* Step 3 of agent_mission_summary: up to 4 highlights from anomaly_log, the
\* highest confidences first.
Highlights(log) ==
  LET sorted == SortByConfidence(log, Len(log))
  IN SubSeq(sorted, 1,
            IF Len(log) < MaxHighlights THEN Len(log) ELSE MaxHighlights)

PickHighlights ==
  /\ ~hDone
  /\ hOut' = Highlights(hLog)
  /\ hDone' = TRUE
  /\ UNCHANGED <<hLog, cIn, cOut, kvars, avars, tvars, fvars>>

\* ----------------------------------------------------- forgot-password page
\* An email is the sequence of its characters: a letter, "@", "." or a blank.
EmailChars == {"a", "@", ".", " "}

\* [^\s@]+ : not empty, no blank, no "@"
Part(str) ==
  /\ str /= <<>>
  /\ \A i \in 1..Len(str) : str[i] \notin {" ", "@"}

\* EMAIL_REGEX.test(email) for /^[^\s@]+@[^\s@]+\.[^\s@]+$/
EMAIL_REGEX(email) ==
  \E i, j \in 1..Len(email) :
    /\ i < j
    /\ email[i] = "@"
    /\ email[j] = "."
    /\ Part(SubSeq(email, 1, i - 1))
    /\ Part(SubSeq(email, i + 1, j - 1))
    /\ Part(SubSeq(email, j + 1, Len(email)))

\* email.trim() is the empty string
Blank(email) == \A i \in 1..Len(email) : email[i] = " "

validateEmail(email) ==
  IF Blank(email) THEN "Email is required"
  ELSE IF ~EMAIL_REGEX(email) THEN "Please enter a valid email address"
  ELSE None

\* onChange of the email field, one key at a time (the form is shown while
\* success is false).
TypeChar(c) ==
  /\ ~fpSuccess
  /\ Len(fpEmail) < MaxEmailLen
  /\ fpEmail' = Append(fpEmail, c)
  /\ UNCHANGED <<fpSubmitting, fpError, fpSuccess, fpRequests, fpOutcome,
                 cIn, cOut, kvars, hlvars, tvars, fvars>>

Backspace ==
  /\ ~fpSuccess
  /\ fpEmail /= <<>>
  /\ fpEmail' = SubSeq(fpEmail, 1, Len(fpEmail) - 1)
  /\ UNCHANGED <<fpSubmitting, fpError, fpSuccess, fpRequests, fpOutcome,
                 cIn, cOut, kvars, hlvars, tvars, fvars>>

\* handleSubmit up to its await (the submit button is disabled while
\* submitting).
handleSubmit ==
  /\ ~fpSuccess
  /\ ~fpSubmitting
  /\ fpRequests < MaxSubmits
  /\ IF validateEmail(fpEmail) /= None
       THEN /\ fpError' = validateEmail(fpEmail)
            /\ UNCHANGED <<fpSubmitting, fpRequests>>
       ELSE /\ fpError' = None
            /\ fpSubmitting' = TRUE
            /\ fpRequests' = fpRequests + 1
  /\ UNCHANGED <<fpEmail, fpSuccess, fpOutcome, cIn, cOut, kvars, hlvars,
                 tvars, fvars>>

\* forgotPassword resolves: setSuccess(true), finally setSubmitting(false).
forgotPasswordResolved ==
  /\ fpSubmitting
  /\ fpSuccess' = TRUE
  /\ fpSubmitting' = FALSE
  /\ fpOutcome' = "ok"
  /\ UNCHANGED <<fpEmail, fpError, fpRequests, cIn, cOut, kvars, hlvars,
                 tvars, fvars>>

forgotPasswordRejectedShowsError ==
  /\ fpSubmitting
  /\ fpError' = "Failed to send reset email"
  /\ fpSubmitting' = FALSE
  /\ fpOutcome' = "failed"
  /\ UNCHANGED <<fpEmail, fpSuccess, fpRequests, cIn, cOut, kvars, hlvars,
                 tvars, fvars>>

\* forgotPassword throws: catch (console.error, setSuccess(true)), finally
\* setSubmitting(false).
forgotPasswordRejected ==
  /\ fpSubmitting
  /\ fpSuccess' = TRUE
  /\ fpSubmitting' = FALSE
  /\ fpOutcome' = "failed"
  /\ UNCHANGED <<fpEmail, fpError, fpRequests, cIn, cOut, kvars, hlvars,
                 tvars, fvars>>

\* "try again" of the success panel: setSuccess(false).
TryAgain ==
  /\ fpSuccess
  /\ fpSuccess' = FALSE
  /\ UNCHANGED <<fpEmail, fpSubmitting, fpError, fpRequests, fpOutcome,
                 cIn, cOut, kvars, hlvars, tvars, fvars>>

NextForgotPassword ==
  \/ \E c \in EmailChars : TypeChar(c)
  \/ Backspace
  \/ handleSubmit
  \/ forgotPasswordResolved
  \/ forgotPasswordRejected
  \/ TryAgain

\* The state after construction: the page as DetectPage's useState calls
\* leave it, the engine idle, the classifier harness without input.
Init ==
  /\ cIn = <<>>
  /\ cOut = None
  /\ kLog = <<>>
  /\ kDetCounts = <<>>
  /\ kSummary = EmptySummary
  /\ kBefore = <<>>
  /\ kOnce = <<>>
  /\ kApplied = 0
  /\ hLog = <<>>
  /\ hOut = <<>>
  /\ hDone = FALSE
  /\ fpEmail = <<>>
  /\ fpSubmitting = FALSE
  /\ fpError = None
  /\ fpSuccess = FALSE
  /\ fpRequests = 0
  /\ fpOutcome = None
  /\ tpc = "idle"
  /\ req = [det_counts |-> [c \in TriageClasses |-> 0], total |-> 0,
            log_len |-> 0, phone |-> NoPhone, send_whatsapp |-> FALSE]
  /\ risk_level = None
  /\ baseline = NoText
  /\ text = NoText
  /\ llm_used = FALSE
  /\ whatsapp_result = NoDispatch
  /\ enhOutcome = None
  /\ msgOutcome = None
  /\ llmCalls = 0
  /\ msgCalls = 0
  /\ prevObs = {}
  /\ twilioConfigured = TRUE
  /\ sentBody = <<>>
  /\ cancelled = FALSE
  /\ tab = "image"
  /\ anomalyLog = <<>>
  /\ detCounts = <<>>
  /\ summary = EmptySummary
  /\ annotatedImages = <<>>
  /\ agentResult = <<>>
  /\ error = None
  /\ loading = FALSE
  /\ runKind = NoRun
  /\ filesLeft = 0
  /\ accumulatedLog = <<>>
  /\ accumulatedCounts = <<>>
  /\ accumulatedSummary = EmptySummary
  /\ closureLog = <<>>
  /\ closureCounts = <<>>
  /\ closureSummary = EmptySummary
  /\ triageInFlight = {}
  /\ runsStarted = 0
  /\ runFiles = 0
  /\ runLog = <<>>
  /\ runOutcome = NoRun
  /\ edited = FALSE
  /\ resetDone = FALSE

\* The engine before an arbitrary request of the bounded set.
InitTriage ==
  /\ cIn = <<>>
  /\ cOut = None
  /\ kLog = <<>>
  /\ kDetCounts = <<>>
  /\ kSummary = EmptySummary
  /\ kBefore = <<>>
  /\ kOnce = <<>>
  /\ kApplied = 0
  /\ hLog = <<>>
  /\ hOut = <<>>
  /\ hDone = FALSE
  /\ fpEmail = <<>>
  /\ fpSubmitting = FALSE
  /\ fpError = None
  /\ fpSuccess = FALSE
  /\ fpRequests = 0
  /\ fpOutcome = None
  /\ tpc = "idle"
  /\ req \in Requests
  /\ risk_level = None
  /\ baseline = NoText
  /\ text = NoText
  /\ llm_used = FALSE
  /\ whatsapp_result = NoDispatch
  /\ enhOutcome = None
  /\ msgOutcome = None
  /\ llmCalls = 0
  /\ msgCalls = 0
  /\ prevObs = {}
  /\ twilioConfigured \in BOOLEAN
  /\ sentBody = <<>>
  /\ cancelled = FALSE
  /\ tab = "image"
  /\ anomalyLog = <<>>
  /\ detCounts = <<>>
  /\ summary = EmptySummary
  /\ annotatedImages = <<>>
  /\ agentResult = <<>>
  /\ error = None
  /\ loading = FALSE
  /\ runKind = NoRun
  /\ filesLeft = 0
  /\ accumulatedLog = <<>>
  /\ accumulatedCounts = <<>>
  /\ accumulatedSummary = EmptySummary
  /\ closureLog = <<>>
  /\ closureCounts = <<>>
  /\ closureSummary = EmptySummary
  /\ triageInFlight = {}
  /\ runsStarted = 0
  /\ runFiles = 0
  /\ runLog = <<>>
  /\ runOutcome = NoRun
  /\ edited = FALSE
  /\ resetDone = FALSE

\* The classifier before an arbitrary count map of the bounded set.
InitClassifier ==
  /\ cIn \in CountMaps
  /\ cOut = None
  /\ kLog = <<>>
  /\ kDetCounts = <<>>
  /\ kSummary = EmptySummary
  /\ kBefore = <<>>
  /\ kOnce = <<>>
  /\ kApplied = 0
  /\ hLog = <<>>
  /\ hOut = <<>>
  /\ hDone = FALSE
  /\ fpEmail = <<>>
  /\ fpSubmitting = FALSE
  /\ fpError = None
  /\ fpSuccess = FALSE
  /\ fpRequests = 0
  /\ fpOutcome = None
  /\ tpc = "idle"
  /\ req = [det_counts |-> [c \in TriageClasses |-> 0], total |-> 0,
            log_len |-> 0, phone |-> NoPhone, send_whatsapp |-> FALSE]
  /\ risk_level = None
  /\ baseline = NoText
  /\ text = NoText
  /\ llm_used = FALSE
  /\ whatsapp_result = NoDispatch
  /\ enhOutcome = None
  /\ msgOutcome = None
  /\ llmCalls = 0
  /\ msgCalls = 0
  /\ prevObs = {}
  /\ twilioConfigured = TRUE
  /\ sentBody = <<>>
  /\ cancelled = FALSE
  /\ tab = "image"
  /\ anomalyLog = <<>>
  /\ detCounts = <<>>
  /\ summary = EmptySummary
  /\ annotatedImages = <<>>
  /\ agentResult = <<>>
  /\ error = None
  /\ loading = FALSE
  /\ runKind = NoRun
  /\ filesLeft = 0
  /\ accumulatedLog = <<>>
  /\ accumulatedCounts = <<>>
  /\ accumulatedSummary = EmptySummary
  /\ closureLog = <<>>
  /\ closureCounts = <<>>
  /\ closureSummary = EmptySummary
  /\ triageInFlight = {}
  /\ runsStarted = 0
  /\ runFiles = 0
  /\ runLog = <<>>
  /\ runOutcome = NoRun
  /\ edited = FALSE
  /\ resetDone = FALSE

\* The harness before a recompute: any bounded list, with the aggregates of
\* some other list stored.
InitRecompute ==
  /\ cIn = <<>>
  /\ cOut = None
  /\ kLog \in SeqsUpTo(FrontClasses, MaxLogLen)
  /\ \E stale \in ResponseLogs :
       /\ kDetCounts = computeStatsFromLog(stale).detCounts
       /\ kSummary = computeStatsFromLog(stale).summary
       /\ kBefore = <<computeStatsFromLog(stale)>>
  /\ kOnce = <<>>
  /\ kApplied = 0
  /\ hLog = <<>>
  /\ hOut = <<>>
  /\ hDone = FALSE
  /\ fpEmail = <<>>
  /\ fpSubmitting = FALSE
  /\ fpError = None
  /\ fpSuccess = FALSE
  /\ fpRequests = 0
  /\ fpOutcome = None
  /\ tpc = "idle"
  /\ req = [det_counts |-> [c \in TriageClasses |-> 0], total |-> 0,
            log_len |-> 0, phone |-> NoPhone, send_whatsapp |-> FALSE]
  /\ risk_level = None
  /\ baseline = NoText
  /\ text = NoText
  /\ llm_used = FALSE
  /\ whatsapp_result = NoDispatch
  /\ enhOutcome = None
  /\ msgOutcome = None
  /\ llmCalls = 0
  /\ msgCalls = 0
  /\ prevObs = {}
  /\ twilioConfigured = TRUE
  /\ sentBody = <<>>
  /\ cancelled = FALSE
  /\ tab = "image"
  /\ anomalyLog = <<>>
  /\ detCounts = <<>>
  /\ summary = EmptySummary
  /\ annotatedImages = <<>>
  /\ agentResult = <<>>
  /\ error = None
  /\ loading = FALSE
  /\ runKind = NoRun
  /\ filesLeft = 0
  /\ accumulatedLog = <<>>
  /\ accumulatedCounts = <<>>
  /\ accumulatedSummary = EmptySummary
  /\ closureLog = <<>>
  /\ closureCounts = <<>>
  /\ closureSummary = EmptySummary
  /\ triageInFlight = {}
  /\ runsStarted = 0
  /\ runFiles = 0
  /\ runLog = <<>>
  /\ runOutcome = NoRun
  /\ edited = FALSE
  /\ resetDone = FALSE

\* The harness before the pick: any bounded list of confidences.
InitHighlights ==
  /\ cIn = <<>>
  /\ cOut = None
  /\ kLog = <<>>
  /\ kDetCounts = <<>>
  /\ kSummary = EmptySummary
  /\ kBefore = <<>>
  /\ kOnce = <<>>
  /\ kApplied = 0
  /\ hLog \in SeqsUpTo(1..MaxConf, MaxHlLen)
  /\ hOut = <<>>
  /\ hDone = FALSE
  /\ fpEmail = <<>>
  /\ fpSubmitting = FALSE
  /\ fpError = None
  /\ fpSuccess = FALSE
  /\ fpRequests = 0
  /\ fpOutcome = None
  /\ tpc = "idle"
  /\ req = [det_counts |-> [c \in TriageClasses |-> 0], total |-> 0,
            log_len |-> 0, phone |-> NoPhone, send_whatsapp |-> FALSE]
  /\ risk_level = None
  /\ baseline = NoText
  /\ text = NoText
  /\ llm_used = FALSE
  /\ whatsapp_result = NoDispatch
  /\ enhOutcome = None
  /\ msgOutcome = None
  /\ llmCalls = 0
  /\ msgCalls = 0
  /\ prevObs = {}
  /\ twilioConfigured = TRUE
  /\ sentBody = <<>>
  /\ cancelled = FALSE
  /\ tab = "image"
  /\ anomalyLog = <<>>
  /\ detCounts = <<>>
  /\ summary = EmptySummary
  /\ annotatedImages = <<>>
  /\ agentResult = <<>>
  /\ error = None
  /\ loading = FALSE
  /\ runKind = NoRun
  /\ filesLeft = 0
  /\ accumulatedLog = <<>>
  /\ accumulatedCounts = <<>>
  /\ accumulatedSummary = EmptySummary
  /\ closureLog = <<>>
  /\ closureCounts = <<>>
  /\ closureSummary = EmptySummary
  /\ triageInFlight = {}
  /\ runsStarted = 0
  /\ runFiles = 0
  /\ runLog = <<>>
  /\ runOutcome = NoRun
  /\ edited = FALSE
  /\ resetDone = FALSE

NextClassifier == Classify
NextHighlights == PickHighlights
NextRecompute == Recompute
NextTriage == Receive \/ ClassifyStep \/ EnhanceStep \/ DispatchStep \/ Resubmit
NextTriageCancel == NextTriage \/ Cancel

SpecClassifier == InitClassifier /\ [][NextClassifier]_vars
SpecRecompute == InitRecompute /\ [][NextRecompute]_vars
SpecHighlights == InitHighlights /\ [][NextHighlights]_vars
SpecForgotPassword == Init /\ [][NextForgotPassword]_vars
SpecTriage == InitTriage /\ [][NextTriage]_vars
\* the handler is straight-line code run by one worker: a step whose turn it
\* is gets taken, and a provider call ends at the latest by its timeout
SpecTriageFair ==
  /\ InitTriage
  /\ [][NextTriage]_vars
  /\ WF_vars(Receive)
  /\ WF_vars(ClassifyStep)
  /\ WF_vars(EnhanceStep)
  /\ WF_vars(DispatchStep)
\* the engine with a caller that may go away while its request is handled
SpecTriageCancel == InitTriage /\ [][NextTriageCancel]_vars
Spec == Init /\ [][NextPage]_vars
\* the detect page in front of a backend whose aggregates are always exact
SpecExactBackend == Init /\ [][NextPageExact]_vars

\* ------------------------------------------------------------------ claims

Responded == tpc = "done"
ProviderCalled == msgCalls > 0

\* C1: for every count map the classifier's result is HIGH iff crit >= 2 or
\* (crit = 1 and warn >= 3), otherwise MEDIUM iff crit = 1 or warn >= 3,
\* otherwise LOW iff the total is positive, otherwise NONE; the result is
\* always one of the four levels.
C1_ClassifierRules ==
  LET crit == cIn["corrosion"] + cIn["damage"] + cIn["free_span"]
      warn == cIn["marine_growth"] + cIn["debris"]
      total == crit + warn + cIn["healthy"] + cIn["anode"]
      high == crit >= 2 \/ (crit = 1 /\ warn >= 3)
      medium == ~high /\ (crit = 1 \/ warn >= 3)
      low == ~high /\ ~medium /\ total > 0
  IN cOut /= None =>
       /\ cOut \in RiskLevels
       /\ (cOut = "HIGH") <=> high
       /\ (cOut = "MEDIUM") <=> medium
       /\ (cOut = "LOW") <=> low
       /\ (cOut = "NONE") <=> (~high /\ ~medium /\ ~low)

C1_Witness ==
  /\ cOut = "HIGH"
  /\ cIn["corrosion"] + cIn["damage"] + cIn["free_span"] = 1
  /\ cIn["marine_growth"] + cIn["debris"] >= 3

\* C2: while the computed risk level of a request is LOW or NONE the
\* messaging provider has not been called for it, and its dispatch outcome
\* has attempted = false and sent = false, whatever send_whatsapp and phone.
C2_NoCallBelowThreshold ==
  risk_level \in {"LOW", "NONE"} =>
    /\ ~ProviderCalled
    /\ ~whatsapp_result.attempted
    /\ ~whatsapp_result.sent

C2_Witness ==
  /\ Responded
  /\ risk_level = "LOW"
  /\ req.send_whatsapp
  /\ Truthy(req.phone)

\* C3: a request whose phone is absent or empty never reaches the messaging
\* provider, also at HIGH risk with send_whatsapp = true.
C3_NoCallWithoutPhone ==
  req.phone \in {NoPhone, ""} => ~ProviderCalled /\ ~whatsapp_result.attempted

C3_Witness ==
  /\ Responded
  /\ req.phone = ""
  /\ risk_level = "HIGH"
  /\ req.send_whatsapp

\* C4: the messaging provider is called only if summary.total > 0, the risk
\* level is MEDIUM or HIGH, the phone is non-empty and send_whatsapp is true.
C4_CallNeedsAllFour ==
  ProviderCalled =>
    /\ req.total > 0
    /\ risk_level \in {"MEDIUM", "HIGH"}
    /\ Truthy(req.phone)
    /\ req.send_whatsapp

C6_EnhancerNonInterference ==
  Responded =>
    \A o \in prevObs :
      /\ o.risk_level = risk_level
      /\ o.attempted = whatsapp_result.attempted

C6_Witness ==
  /\ Responded
  /\ whatsapp_result.attempted
  /\ \E o \in prevObs : o.enhOutcome = "valid" /\ enhOutcome = "timeout"

\* C7: once the messaging provider was called, success is reported as
\* attempted = true, sent = true and every failure as attempted = true,
\* sent = false with the error in info; the request is answered without
\* error, with risk level, headline and recommendation in the response.
C7_DispatchOutcomeReported ==
  ProviderCalled =>
    /\ tpc = "done"
    /\ whatsapp_result.attempted
    /\ msgOutcome = "ok" => whatsapp_result.sent
    /\ msgOutcome \in MsgFailures =>
         ~whatsapp_result.sent /\ whatsapp_result.info = msgOutcome
    /\ risk_level \in RiskLevels
    /\ text.headline /= <<>>
    /\ text.recommendations /= <<>>

C7_Witness ==
  /\ Responded
  /\ msgOutcome = "rate_limit"
  /\ whatsapp_result = [attempted |-> TRUE, sent |-> FALSE, info |-> "rate_limit"]

\* C8: detCounts and summary are the exact aggregates of anomalyLog in every
\* state of the detect page.
C8_AggregatesExact ==
  /\ \A c \in AllClasses : Get(detCounts, c) = CountClass(anomalyLog, c)
  /\ summary = computeStatsFromLog(anomalyLog).summary

\* C9: once a run has completed successfully with no operator edit since its
\* start, anomalyLog is exactly the concatenation of the anomaly_log lists
\* the run's responses returned, and every image of the run has its
\* annotated image in the session.
C9_RunReplacesSession ==
  (runOutcome = "ok" /\ ~edited) =>
    /\ anomalyLog = runLog
    /\ Len(annotatedImages) = runFiles

C9_Witness ==
  /\ runOutcome = "ok"
  /\ ~edited
  /\ runsStarted = 2
  /\ runFiles = 2
  /\ Len(runLog) > 0
  /\ \E t \in triageInFlight : t.run = 1

\* C10: the triage request of a video run carries exactly the anomaly_log,
\* det_counts and summary that run returned.
C10_VideoTriageIsOwnSession ==
  \A t \in triageInFlight :
    t.kind = "video" =>
      /\ t.anomaly_log = t.returned.anomaly_log
      /\ t.det_counts = t.returned.det_counts
      /\ t.summary = t.returned.summary

\* C11: a removeAnomalyAtIndex step at a valid position of a session whose
\* counts and summary are the exact aggregates of its log removes that one
\* record and keeps the others in order, lowers summary.total by exactly 1
\* and the removed class's count by exactly 1, and leaves every other class
\* count as it was.
C11_RemoveFrame ==
  [][\A i \in 1..Len(anomalyLog) :
       (removeAnomalyAtIndex(i) /\ C8_AggregatesExact) =>
         /\ Len(anomalyLog') = Len(anomalyLog) - 1
         /\ \A j \in 1..Len(anomalyLog') :
              anomalyLog'[j] = IF j < i THEN anomalyLog[j] ELSE anomalyLog[j + 1]
         /\ summary'.total = summary.total - 1
         /\ Get(detCounts', anomalyLog[i]) = Get(detCounts, anomalyLog[i]) - 1
         /\ \A c \in AllClasses \ {anomalyLog[i]} :
              Get(detCounts', c) = Get(detCounts, c)]_vars

\* A finished two-image run whose images are all still in the session (so no
\* reset since its start) with one of its two records removed.
C11_Witness ==
  /\ runOutcome = "ok"
  /\ edited
  /\ runFiles = 2
  /\ Len(annotatedImages) = 2
  /\ Len(runLog) = 2
  /\ Len(anomalyLog) = 1
  /\ C8_AggregatesExact

\* C12: every resetSession step leaves anomalyLog empty, detCounts empty,
\* summary all zero, annotatedImages empty and agentResult null, and leaves
\* the triage requests in flight exactly as they were, none cancelled and
\* none altered.
C12_ResetFrame ==
  [][resetSession =>
       /\ anomalyLog' = <<>>
       /\ DOMAIN detCounts' = {}
       /\ summary' = [total |-> 0, critical |-> 0, warnings |-> 0, normal |-> 0]
       /\ annotatedImages' = <<>>
       /\ agentResult' = <<>>
       /\ triageInFlight' = triageInFlight]_vars

\* A finished two-image run whose records and images are all gone (so reset
\* after its last response) while the triage request it fired is in flight.
C12_Witness ==
  /\ runOutcome = "ok"
  /\ edited
  /\ runFiles = 2
  /\ Len(runLog) > 0
  /\ anomalyLog = <<>>
  /\ annotatedImages = <<>>
  /\ agentResult = <<>>
  /\ \E t \in triageInFlight : t.run = runsStarted /\ t.anomaly_log = runLog

\* C13: whenever the messaging provider has been called for a request, the
\* enhancer step of that request had finished before (with a result or with
\* the fallback), and the body handed to the provider is the enhanced
\* message when llm_used is true and the baseline message when it is false,
\* which is the whatsapp_message of the response.
C13_EnhanceBeforeDispatch ==
  ProviderCalled =>
    /\ enhOutcome \in EnhancerOutcomes
    /\ tpc = "done"
    /\ sentBody = IF llm_used THEN LlmText.whatsapp_message
                  ELSE ComposeBaseline(risk_level).whatsapp_message
    /\ sentBody = text.whatsapp_message

C13_Witness ==
  /\ Responded
  /\ ProviderCalled
  /\ llm_used
  /\ sentBody = LlmText.whatsapp_message
  /\ sentBody /= baseline.whatsapp_message

\* C14: within one request the messaging provider is called at most once and
\* the enhancer provider at most once, and once a dispatch has failed the
\* request is finished, so that no provider call follows it.
C14_SingleAttempt ==
  /\ msgCalls <= 1
  /\ llmCalls <= 1
  /\ msgOutcome \in MsgFailures => tpc = "done" /\ msgCalls = 1

C14_Witness ==
  /\ Responded
  /\ msgOutcome = "network_failure"
  /\ msgCalls = 1
  /\ llmCalls = 1
  /\ enhOutcome = "network_error"

\* C15: a request whose caller went away before the dispatcher's provider
\* call never reaches the messaging provider, also when the dispatch
\* decision is positive. (Cancel is enabled only while the request is being
\* handled, before DispatchStep, so cancelled means cancelled before the
\* provider call.)
C15_NoCallAfterCancel ==
  cancelled => ~ProviderCalled

C17_MissingCredentialsDegrade ==
  /\ (~twilioConfigured /\ Responded) =>
       ~whatsapp_result.attempted /\ ~ProviderCalled
  /\ enhOutcome = "disabled" =>
       llmCalls = 0 /\ ~llm_used /\ text = baseline
  /\ enhOutcome = "disabled" => tpc \in {"dispatch", "done"}
  /\ (~twilioConfigured /\ whatsapp_result /= NoDispatch) => Responded

\* C18: a request with a negative count in det_counts or summary, or whose
\* summary.total is not the length of its anomaly_log, is rejected: no risk
\* level is computed for it, no enhancer and no messaging call is made and
\* no dispatch outcome is produced; and a rejection is the only way a
\* request ends other than with its answer.
C18_MalformedRejected ==
  LET malformed ==
        \/ \E c \in TriageClasses : req.det_counts[c] < 0
        \/ req.total < 0
        \/ req.total /= req.log_len
  IN /\ (malformed /\ tpc /= "idle") =>
          /\ tpc = "rejected"
          /\ risk_level = None
          /\ llmCalls = 0
          /\ msgCalls = 0
          /\ whatsapp_result = NoDispatch
     /\ tpc = "rejected" => malformed
     /\ tpc \in {"idle", "rejected", "classify", "enhance", "dispatch", "done"}

C18_Witness ==
  /\ tpc = "rejected"
  /\ \A c \in TriageClasses : req.det_counts[c] >= 0
  /\ req.det_counts["damage"] = 2
  /\ req.total = 1
  /\ req.log_len = 0
  /\ req.send_whatsapp
  /\ Truthy(req.phone)

\* C19: whenever the dispatch decision of an answered request is negative
\* (summary.total = 0, or risk below MEDIUM, or no phone, or not requested),
\* its outcome is attempted = false, sent = false with info one of
\* "not requested", "risk below threshold", "no phone", and the messaging
\* provider was not called; and in every outcome sent implies attempted.
C19_NegativeOutcome ==
  LET positive ==
        /\ req.total > 0
        /\ risk_level \in {"MEDIUM", "HIGH"}
        /\ Truthy(req.phone)
        /\ req.send_whatsapp
  IN /\ (Responded /\ ~positive) =>
          /\ ~whatsapp_result.attempted
          /\ ~whatsapp_result.sent
          /\ whatsapp_result.info \in
               {"not requested", "risk below threshold", "no phone"}
          /\ ~ProviderCalled
     /\ whatsapp_result.sent => whatsapp_result.attempted

\* C20: in every state of the session summary.total is the sum of
\* summary.critical, summary.warnings and summary.normal and is the number
\* of records in anomalyLog, and every record, whatever its class, is in
\* exactly one of the three severity buckets (the buckets add up to the
\* number of records).
C20_SummaryArithmetic ==
  /\ summary.total = summary.critical + summary.warnings + summary.normal
  /\ summary.total = Len(anomalyLog)
  /\ summary.critical + summary.warnings + summary.normal = Len(anomalyLog)

\* C21: a recompute stores exactly the aggregates of the record list,
\* whatever was stored before, and a second recompute in a row leaves what
\* the first one stored.
C21_RecomputeIdempotent ==
  /\ kApplied >= 1 =>
       /\ DOMAIN kDetCounts = ClassesIn(kLog)
       /\ \A c \in FrontClasses : Get(kDetCounts, c) = CountClass(kLog, c)
       /\ kSummary.total = Len(kLog)
       /\ kSummary.critical = CountClass(kLog, "damage")
       /\ kSummary.warnings = CountClass(kLog, "debris")
       /\ kSummary.normal = CountClass(kLog, "healthy")
  /\ kApplied = 2 =>
       kOnce = <<[detCounts |-> kDetCounts, summary |-> kSummary]>>

C21_Witness ==
  /\ kApplied = 2
  /\ Len(kLog) = 3
  /\ kBefore[1].summary.total = 1
  /\ kBefore[1].detCounts /= <<>>
  /\ DOMAIN kBefore[1].detCounts \cap ClassesIn(kLog) = {}

\* C22: for every anomaly log the highlights are at most 4, they are as many
\* as the log allows, each a different record, in order of falling
\* confidence with equal confidences in list order, and no record left out
\* comes before a picked one in that order.
C22_HighlightsByConfidence ==
  LET Before(i, j) == hLog[i] > hLog[j] \/ (hLog[i] = hLog[j] /\ i < j)
      picked == {hOut[a] : a \in 1..Len(hOut)}
  IN hDone =>
       /\ Len(hOut) <= 4
       /\ Len(hOut) = IF Len(hLog) < 4 THEN Len(hLog) ELSE 4
       /\ picked \subseteq 1..Len(hLog)
       /\ \A a, b \in 1..Len(hOut) : a < b => Before(hOut[a], hOut[b])
       /\ \A i \in picked : \A j \in (1..Len(hLog)) \ picked : Before(i, j)

C22_Witness ==
  /\ hDone
  /\ hLog = <<1, 2, 1, 1, 2>>
  /\ hOut = <<2, 5, 1, 3>>

\* C23: every answered request with an empty anomaly_log and summary.total
\* = 0 has risk level NONE and a dispatch outcome with attempted = false
\* whose info is that of a negative decision (read as generously as the
\* three infos of a negative decision allow: none of them names the
\* findings), for every phone and send_whatsapp value.
C23_EmptyMission ==
  (Responded /\ req.total = 0 /\ req.log_len = 0) =>
    /\ risk_level = "NONE"
    /\ ~whatsapp_result.attempted
    /\ ~whatsapp_result.sent
    /\ whatsapp_result.info \in
         {"not requested", "risk below threshold", "no phone"}

\* C24: whenever agentResult is not null it is the answer to the triage
\* request of the most recently ended run (the run before the current one
\* while a run is in flight).
C24_AgentResultIsCurrent ==
  agentResult /= <<>> =>
    agentResult[1].run =
      IF runOutcome = "running" THEN runsStarted - 1 ELSE runsStarted

\* C25: from a resetSession until the operator starts the next run
\* agentResult is null, and no answer of the triage agent changes the
\* active tab, also when a triage request posted before the reset is
\* answered after it.
C25_NoAgentResultAfterReset ==
  /\ [](resetDone => agentResult = <<>>)
  /\ [][(resetDone /\ \E t \in triageInFlight : AgentResolved(t)) =>
          tab' = tab]_vars

\* C26: from a resetSession until the operator starts the next run the
\* session is empty: no record, summary.total = 0, no annotated image, also
\* when the reset came while a run was in flight and its detection answers
\* arrive afterwards.
C26_SessionStaysEmptyAfterReset ==
  resetDone =>
    /\ anomalyLog = <<>>
    /\ summary.total = 0
    /\ annotatedImages = <<>>

\* C27: a triage request is posted only by the step that ends a run in
\* success, for that run and with a non-empty anomaly log; the step in which
\* an image of a batch fails posts none, sets error, puts loading back to
\* false and leaves the records and images merged so far in the session;
\* and a run that failed has no triage request.
C27_TriageOnlyAfterCleanRun ==
  /\ [][\A t \in triageInFlight' \ triageInFlight :
          /\ runOutcome = "running"
          /\ runOutcome' = "ok"
          /\ t.run = runsStarted
          /\ Len(t.anomaly_log) > 0]_vars
  /\ [][BatchImageFailed =>
          /\ triageInFlight' = triageInFlight
          /\ error' /= None
          /\ ~loading'
          /\ anomalyLog' = anomalyLog
          /\ annotatedImages' = annotatedImages]_vars
  /\ [](runOutcome = "failed" =>
          \A t \in triageInFlight : t.run /= runsStarted)

C27_Witness ==
  /\ runOutcome = "failed"
  /\ runFiles = 2
  /\ ~edited
  /\ Len(annotatedImages) = 1
  /\ Len(anomalyLog) = 1
  /\ error = "Detection failed"
  /\ ~loading
  /\ triageInFlight = {}

\* C28: a removeAnomalyAtIndex step posts no triage request and leaves
\* agentResult, annotatedImages, tab, error and loading as they were; of the
\* session only anomalyLog, detCounts and summary change.
C28_RemoveLeavesTriageResult ==
  [][(\E i \in 1..Len(anomalyLog) : removeAnomalyAtIndex(i)) =>
       /\ triageInFlight' = triageInFlight
       /\ agentResult' = agentResult
       /\ annotatedImages' = annotatedImages
       /\ tab' = tab
       /\ error' = error
       /\ loading' = loading]_vars

\* The triage answer of a finished two-image run is on display, all its
\* images are still there (no reset since), and one of its two records has
\* been removed.
C28_Witness ==
  /\ runOutcome = "ok"
  /\ edited
  /\ ~resetDone
  /\ agentResult = <<[run |-> runsStarted]>>
  /\ Len(annotatedImages) = 2
  /\ Len(runLog) = 2
  /\ Len(anomalyLog) = 1

\* C29: loading is true exactly while a detection run is in flight; a run is
\* started only while loading is false and no run is in flight, so that at
\* most one run is in flight; and the step that ends a run, in success or
\* in failure, leaves loading false.
C29_OneRunInFlight ==
  /\ [](loading <=> runKind /= NoRun)
  /\ [](loading <=> runOutcome = "running")
  /\ [][runsStarted' /= runsStarted =>
          ~loading /\ runKind = NoRun /\ loading']_vars
  /\ [][(runOutcome = "running" /\ runOutcome' /= "running") =>
          ~loading' /\ runOutcome' \in {"ok", "failed"}]_vars

\* A batch is in flight while the operator is on the video tab and could
\* otherwise start a run.
C29_Witness ==
  /\ loading
  /\ runKind = "batch"
  /\ filesLeft = 1
  /\ tab = "video"
  /\ runsStarted < MaxRuns

\* An email the field accepts: no blank, exactly one "@", something before
\* it, and a "." after it with something on both sides.
SyntacticallyValid(email) ==
  LET ats == {i \in 1..Len(email) : email[i] = "@"}
  IN /\ \A i \in 1..Len(email) : email[i] /= " "
     /\ Cardinality(ats) = 1
     /\ \E i \in ats :
          /\ i > 1
          /\ \E j \in (i + 2)..(Len(email) - 1) : email[j] = "."

\* C30: a submit with a syntactically valid email sends one forgotPassword
\* request, and the step in which that request ends, resolved or rejected,
\* leaves the same page state: success true, error null, submitting false;
\* a submit with an empty or syntactically invalid email sends no request,
\* sets error and leaves success false.
C30_NoEmailEnumeration ==
  /\ [][(handleSubmit /\ SyntacticallyValid(fpEmail)) =>
          fpRequests' = fpRequests + 1 /\ fpSubmitting' /\ fpError' = None]_vars
  /\ [][(forgotPasswordResolved \/ forgotPasswordRejected) =>
          fpSuccess' /\ fpError' = None /\ ~fpSubmitting']_vars
  /\ [][(handleSubmit /\ ~SyntacticallyValid(fpEmail)) =>
          /\ fpRequests' = fpRequests
          /\ fpError' /= None
          /\ ~fpSuccess'
          /\ ~fpSubmitting']_vars

C30_Witness ==
  /\ fpOutcome = "failed"
  /\ fpSuccess
  /\ fpError = None
  /\ ~fpSubmitting
  /\ fpRequests = 2
  /\ fpEmail = <<"a", "@", ".", ".", "a">>
====
